---- MODULE Spec2Model ----
(***************************************************************************)
(* A model of the bimg Conan recipe (conanfile.py, class bimgConan).       *)
(*                                                                         *)
(* Two specifications share the variables:                                 *)
(*   VersionSpec  set_version() followed by source()/cloneVersion(): the   *)
(*                commit-count version formula and its decoding;           *)
(*   Spec         validate() -> build() -> package() for every settings    *)
(*                and options combination of the bounded domains below.    *)
(*                                                                         *)
(* Strings that the recipe formats, splits or matches are sequences of     *)
(* tokens: a version is the sequence of its characters, a file name the    *)
(* sequence of the name parts the recipe's patterns look at.               *)
(***************************************************************************)
EXTENDS Integers, Sequences, FiniteSets, TLC

VARIABLES
    settings,        \* self.settings: os, compiler, compiler.version, compiler.runtime, compiler.cppstd, arch, build_type
    settings_build,  \* self.settings_build: the build machine's settings (arch)
    options,         \* self.options: fPIC, tools, rtti
    msys2,           \* "msys2" in self.dependencies.build
    version,         \* self.version, a sequence of characters; <<>> when not set
    pc,              \* the recipe method that runs next, or "done" / "error"
    err,             \* the exception that ended the run
    warned,          \* validate() printed its "no checking for the current compiler" warning
    trace,           \* table lookups, external invocations and file operations, in execution order
    out_dir,         \* .build holds a directory other than "projects"
    build_bin,       \* files in the build output folder .build/<out_dir>/bin
    package_lib,     \* files in <package_folder>/lib
    package_bin,     \* files in <package_folder>/bin
    numCommits,      \* set_version(): git rev-list --count master
    numCommitsLatest,\* cloneVersion(): git rev-list --count master
    checkedOut,      \* cloneVersion(): k when "checkout HEAD~k" ran, -1 when no checkout ran
    bx_version       \* self.dependencies["bx"].ref.version

vars == <<settings, settings_build, options, msys2, version, pc, err, warned, trace,
          out_dir, build_bin, package_lib, package_bin, numCommits, numCommitsLatest, checkedOut,
          bx_version>>

recipeVars == <<settings, settings_build, options, msys2>>
fileVars == <<out_dir, build_bin, package_lib, package_bin>>
gitVars == <<numCommits, numCommitsLatest, checkedOut, bx_version>>

-----------------------------------------------------------------------------
(* Bounds *)

\* Commit counts are sampled in windows of this half-width around the places
\* where a version component rolls over (0, 100, 10000, 20000) and one mid value.
MaxDelta == 1

\* Number of library files in the build output that belong neither to bimg nor to bx.
MaxExtraLibs == 1

-----------------------------------------------------------------------------
(* Program constants *)

expectedNumLibs == 3
invalidPackageExceptionText == "Less lib files found for copy than expected. Aborting."

NoError == [type |-> "none", method |-> "none", origin |-> "none", reason |-> "none"]

-----------------------------------------------------------------------------
(* Sequences helpers *)

Last(s) == s[Len(s)]

Contains(s, tok) == \E i \in 1..Len(s) : s[i] = tok

IsPrefixOf(s, t) == Len(s) <= Len(t) /\ SubSeq(t, 1, Len(s)) = s

RECURSIVE Flatten(_)
Flatten(ss) == IF ss = <<>> THEN <<>> ELSE Head(ss) \o Flatten(Tail(ss))

-----------------------------------------------------------------------------
(* Version strings: f"{verMajor}.{verMinor}.{verRev}", str.split("."), int() *)

DigitChars == <<"0", "1", "2", "3", "4", "5", "6", "7", "8", "9">>

\* str(n) for n >= 0
RECURSIVE IntToStr(_)
IntToStr(n) == IF n < 10 THEN <<DigitChars[n + 1]>>
               ELSE IntToStr(n \div 10) \o <<DigitChars[(n % 10) + 1]>>

\* int(s) for a string of decimal digits
RECURSIVE StrToInt(_)
StrToInt(s) == IF s = <<>> THEN 0
               ELSE 10 * StrToInt(SubSeq(s, 1, Len(s) - 1))
                    + ((CHOOSE d \in 1..10 : DigitChars[d] = Last(s)) - 1)

\* s.split(".")
RECURSIVE Split(_)
Split(s) ==
    IF ~Contains(s, ".") THEN <<s>>
    ELSE LET i == CHOOSE k \in 1..Len(s) : s[k] = "." /\ \A j \in 1..(k - 1) : s[j] # "."
         IN  <<SubSeq(s, 1, i - 1)>> \o Split(SubSeq(s, i + 1, Len(s)))

FormatVersion(verMajor, verMinor, verRev) ==
    IntToStr(verMajor) \o <<".">> \o IntToStr(verMinor) \o <<".">> \o IntToStr(verRev)

-----------------------------------------------------------------------------
(* set_version() and source(): the version specification *)

Folders == {"bx", "bimg"}

\* Commit counts git may report: windows around the roll-over points of the
\* version components, and around 330 (version 1.3.30).
CommitCounts ==
    UNION {{n \in (c - MaxDelta)..(c + MaxDelta) : n >= 0} : c \in {0, 100, 330, 10000, 20000}}

\* Commit counts and versions of the bx dependency.
BxCommitCounts == {97, 10000 + MaxDelta}

\* Faulty variant of VersionOfCommits: the minor component is not wrapped at 100.
VersionOfCommitsMinorUnwrapped(n) ==
    LET verMajor == 1 + (n \div 10000)
        verMinor == n \div 100
        verRev == n % 100
    IN  FormatVersion(verMajor, verMinor, verRev)

\* The version set_version() derives from the commit count.
VersionOfCommits(n) ==
    LET verMajor == 1 + (n \div 10000)
        verMinor == (n \div 100) % 100
        verRev == n % 100
    IN  FormatVersion(verMajor, verMinor, verRev)

\* Versions a user passes on the command line (conan create . --version=...).
UserVersions == {FormatVersion(1, 3, 29), FormatVersion(1, 3, 30), FormatVersion(1, 12, 0)}

\* Faulty variant of CommitsOfVersion: the major component is not taken back to zero.
CommitsOfVersionMajorFromZero(v) ==
    LET splitVer == Split(v)
    IN  StrToInt(splitVer[3]) + StrToInt(splitVer[2]) * 100
        + StrToInt(splitVer[1]) * 10000

\* The versions the packaging specification is run for: the two sides of 1.3.30.
PackagedVersions == {FormatVersion(1, 3, 29), FormatVersion(1, 3, 30)}

\* cloneVersion(): the commit count a version string encodes
CommitsOfVersion(v) ==
    LET splitVer == Split(v)
    IN  StrToInt(splitVer[3]) + StrToInt(splitVer[2]) * 100
        + (StrToInt(splitVer[1]) - 1) * 10000

\* cloneVersion(): numCommitsBack
NumCommitsBack(latest, v) == latest - CommitsOfVersion(v)

\* cloneVersion(): the k of "git checkout HEAD~k", -1 when the checkout is skipped
cloneVersion(latest, v) ==
    LET numCommitsBack == NumCommitsBack(latest, v)
    IN  IF numCommitsBack > 0 THEN numCommitsBack ELSE -1

GitError(m) == [type |-> "ConanException", method |-> m, origin |-> "external", reason |-> "git"]

VInit ==
    /\ settings = [os |-> "Linux", compiler |-> "gcc", compiler_version |-> 8,
                   runtime |-> "none", cppstd |-> 0, arch |-> "x86_64",
                   build_type |-> "Release"]
    /\ settings_build = [arch |-> "x86_64"]
    /\ options = [fPIC |-> TRUE, tools |-> FALSE, rtti |-> TRUE]
    /\ msys2 = FALSE
    /\ version \in {<<>>} \cup UserVersions
    /\ pc = "set_version"
    /\ err = NoError
    /\ warned = FALSE
    /\ trace = <<>>
    /\ out_dir = FALSE
    /\ build_bin = {} /\ package_lib = {} /\ package_bin = {}
    /\ numCommits = -1
    /\ numCommitsLatest = [f \in Folders |-> -1]
    /\ checkedOut = [f \in Folders |-> -1]
    /\ bx_version = <<>>

\* set_version(): with no version given, clone bimg and number the version by commit count
set_version ==
    /\ pc = "set_version"
    /\ \/ /\ version # <<>>
          /\ pc' = "source"
          /\ UNCHANGED <<version, numCommits, err>>
       \/ /\ version = <<>>
          /\ \E n \in CommitCounts :
                /\ numCommits' = n
                /\ version' = VersionOfCommits(n)
          /\ pc' = "source"
          /\ UNCHANGED err
       \/ /\ version = <<>>          \* git clone or git rev-list fails
          /\ pc' = "error"
          /\ err' = GitError("set_version")
          /\ UNCHANGED <<version, numCommits>>
    /\ UNCHANGED <<recipeVars, fileVars, warned, trace, numCommitsLatest, checkedOut, bx_version>>

\* source(): cloneVersion() of bx at the dependency's version, then of bimg at self.version
source ==
    /\ pc = "source"
    /\ \E bxv \in {VersionOfCommits(n) : n \in BxCommitCounts},
          bxLatest \in BxCommitCounts, bimgLatest \in CommitCounts,
          gitFails \in {"none", "bx", "bimg"} :
          /\ bx_version' = bxv
          /\ numCommitsLatest' =
                [f \in Folders |->
                    CASE f = "bx" -> bxLatest
                      [] f = "bimg" -> IF gitFails = "bx" THEN -1 ELSE bimgLatest]
          /\ checkedOut' =
                [f \in Folders |->
                    CASE f = "bx" -> IF gitFails = "bx" THEN -1 ELSE cloneVersion(bxLatest, bxv)
                      [] f = "bimg" -> IF gitFails = "none"
                                       THEN cloneVersion(bimgLatest, version) ELSE -1]
          /\ IF gitFails = "none"
             THEN pc' = "generate" /\ UNCHANGED err
             ELSE pc' = "error" /\ err' = GitError("source")
    /\ UNCHANGED <<recipeVars, fileVars, version, warned, trace, numCommits>>

VNext == set_version \/ source

VersionSpec == VInit /\ [][VNext]_vars

-----------------------------------------------------------------------------
(* Settings and options of the packaging specification *)

OSes == {"Windows", "Linux", "FreeBSD", "Macos", "Android", "SunOS"}
Arches == {"x86", "x86_64", "armv8"}
BuildTypes == {"Debug", "Release", "RelWithDebInfo"}
\* compiler.cppstd; 0 stands for a profile that sets none
CppStds == {0, 14, 17}

\* compiler and compiler.version
Compilers == {<<"gcc", 7>>, <<"gcc", 8>>, <<"sun-cc", 5>>,
              <<"msvc", 190>>, <<"msvc", 192>>, <<"msvc", 195>>}

\* conan.tools.microsoft.is_msvc
is_msvc(s) == s.compiler \in {"Visual Studio", "msvc"}

\* conan.tools.microsoft.is_msvc_static_runtime
is_msvc_static_runtime(s) == is_msvc(s) /\ s.runtime = "static"

\* Faulty variant of get_safe_fPIC: a deleted option does not default to True.
get_safe_fPIC_NoDefault(o) == o.fPIC = "True"

\* self.options.get_safe("fPIC", True)
get_safe_fPIC(o) == IF o.fPIC = "deleted" THEN TRUE ELSE o.fPIC = "True"

\* conan.tools.scm.Version: the numeric components of a dotted version
VersionItems(v) == LET parts == Split(v) IN [i \in 1..Len(parts) |-> StrToInt(parts[i])]

\* Version(v) < w, component by component
RECURSIVE ItemsLess(_, _)
ItemsLess(a, b) ==
    IF b = <<>> THEN FALSE
    ELSE IF a = <<>> THEN TRUE
    ELSE IF Head(a) # Head(b) THEN Head(a) < Head(b)
    ELSE ItemsLess(Tail(a), Tail(b))

VersionLess(v, w) == ItemsLess(VersionItems(v), VersionItems(w))

_compiler_required ==
    ("gcc" :> 8) @@ ("clang" :> 11) @@ ("apple-clang" :> 12) @@ ("msvc" :> 192)
    @@ ("Visual Studio" :> 16)

\* One entry of the execution trace.
Step(op, what, arg, status) == [op |-> op, what |-> what, arg |-> arg, status |-> status]

\* table[key]: the trace entry of the lookup
Lookup(name, table, key) ==
    Step("lookup", name, <<key>>, IF key \in DOMAIN table THEN "hit" ELSE "miss")

Raised(type, method, origin, reason) ==
    [type |-> type, method |-> method, origin |-> origin, reason |-> reason]

InvalidConfiguration(origin, reason) ==
    Raised("ConanInvalidConfiguration", "validate", origin, reason)

\* validate(): the version / os / arch test of the astc cross-build rejection
CrossBuildRejected(v, s, sb) ==
    /\ VersionLess(v, FormatVersion(1, 3, 30))
    /\ s.os \in {"Linux", "FreeBSD"}
    /\ s.arch = "x86_64"
    /\ sb.arch = "x86"

\* conan.tools.build.check_min_cppstd(self, 17) raises
check_min_cppstd_fails(s) == s.cppstd # 0 /\ s.cppstd < 17

\* conan.tools.microsoft.check_min_vs(self, 191) raises
check_min_vs_fails(s) ==
    LET vs_to_msvc == (15 :> 191) @@ (16 :> 192) @@ (17 :> 193)
        compiler_version ==
            CASE s.compiler = "Visual Studio" -> vs_to_msvc[s.compiler_version]
              [] s.compiler = "msvc" -> s.compiler_version
              [] OTHER -> 0
    IN  is_msvc(s) /\ compiler_version < 191

\* validate(): the try block; the exception it lets out, or NoError
CompilerCheck(s) ==
    IF s.compiler \in DOMAIN _compiler_required
       /\ s.compiler_version < _compiler_required[s.compiler]
    THEN InvalidConfiguration("recipe", "cpp17")
    ELSE NoError      \* a KeyError is caught: warning only

\* validate(): the exception it raises, or NoError
ValidateError(v, s, sb, o) ==
    IF ~get_safe_fPIC(o) THEN InvalidConfiguration("recipe", "fPIC")
    ELSE IF check_min_cppstd_fails(s) THEN InvalidConfiguration("conan", "cppstd")
    ELSE IF CrossBuildRejected(v, s, sb) THEN InvalidConfiguration("recipe", "astc")
    ELSE IF check_min_vs_fails(s) THEN InvalidConfiguration("conan", "min_vs")
    ELSE IF is_msvc(s) THEN NoError
    ELSE IF CompilerCheck(s) # NoError THEN CompilerCheck(s)
    ELSE IF s.os = "Windows" /\ s.arch # "x86_64" THEN InvalidConfiguration("recipe", "mingw")
    ELSE NoError

\* validate() reaches its _compiler_required lookup
ValidateLooksUp(v, s, sb, o) ==
    /\ ~is_msvc(s)
    /\ ValidateError(v, s, sb, o).reason \notin {"fPIC", "cppstd", "astc", "min_vs"}

Init ==
    /\ \E c \in Compilers, os \in OSes, arch \in Arches, bt \in BuildTypes, std \in CppStds,
          rt \in {"static", "dynamic", "none"} :
          /\ (rt = "none") <=> (c[1] \notin {"Visual Studio", "msvc"})
          \* msvc targets Windows; Linux stands for every other os it could be paired with
          /\ c[1] \in {"Visual Studio", "msvc"} => os \in {"Windows", "Linux"}
          /\ settings = [os |-> os, compiler |-> c[1], compiler_version |-> c[2],
                         runtime |-> rt, cppstd |-> std, arch |-> arch, build_type |-> bt]
    /\ settings_build \in [arch : {"x86", "x86_64"}]
    /\ options \in [fPIC : {"True", "False", "deleted"}, tools : BOOLEAN, rtti : BOOLEAN]
    /\ (options.fPIC = "deleted") <=> (settings.os = "Windows")     \* config_options()
    /\ msys2 \in BOOLEAN
    /\ msys2 => (settings.os = "Windows" /\ ~is_msvc(settings))     \* build_requirements()
    /\ version \in PackagedVersions
    /\ pc = "validate"
    /\ err = NoError
    /\ warned = FALSE
    /\ trace = <<>>
    /\ out_dir = FALSE
    /\ build_bin = {} /\ package_lib = {} /\ package_bin = {}
    /\ numCommits = -1
    /\ numCommitsLatest = [f \in Folders |-> -1]
    /\ checkedOut = [f \in Folders |-> -1]
    /\ bx_version = <<>>

validate ==
    /\ pc = "validate"
    /\ LET e == ValidateError(version, settings, settings_build, options)
           looked == ValidateLooksUp(version, settings, settings_build, options)
       IN  /\ err' = e
           /\ pc' = IF e = NoError THEN "build" ELSE "error"
           /\ trace' = IF looked
                       THEN trace \o <<Lookup("_compiler_required", _compiler_required,
                                              settings.compiler)>>
                       ELSE trace
           /\ warned' = (looked /\ settings.compiler \notin DOMAIN _compiler_required)
    /\ UNCHANGED <<recipeVars, fileVars, gitVars, version>>

-----------------------------------------------------------------------------
(* build() *)

\* _genie_extra
GenieExtra(s, o) ==
    (IF is_msvc(s) /\ ~is_msvc_static_runtime(s) THEN <<"--with-dynamic-runtime">> ELSE <<>>)
    \o (IF o.tools THEN <<"--with-tools">> ELSE <<>>)

\* _lib_target_prefix
LibTargetPrefix(s) == IF s.os = "Windows" THEN "libs\\" ELSE ""

\* _tool_target_prefix
ToolTargetPrefix(s) == IF s.os = "Windows" THEN "tools\\" ELSE ""

\* Faulty variant of Projs: the tool target is put in front of the libraries.
ProjsToolsFirst(s, o) ==
    (IF o.tools THEN <<<<ToolTargetPrefix(s), "texturec">>>> ELSE <<>>)
    \o <<<<LibTargetPrefix(s), "bimg">>, <<LibTargetPrefix(s), "bimg_decode">>,
         <<LibTargetPrefix(s), "bimg_encode">>>>

\* _projs: every target is the pair <<prefix, project>>
Projs(s, o) ==
    <<<<LibTargetPrefix(s), "bimg">>, <<LibTargetPrefix(s), "bimg_decode">>,
      <<LibTargetPrefix(s), "bimg_encode">>>>
    \o (IF o.tools THEN <<<<ToolTargetPrefix(s), "texturec">>>> ELSE <<>>)

TargetNames == {"bimg", "bimg_decode", "bimg_encode", "texturec"}

\* Conan to Genie translation maps
vs_ver_to_genie ==
    (17 :> "2022") @@ (16 :> "2019") @@ (15 :> "2017")
    @@ (194 :> "2022") @@ (193 :> "2022") @@ (192 :> "2019") @@ (191 :> "2017")

compiler_and_os_to_genie(compiler_str) ==
    ("Windows" :> <<"--gcc=mingw-", compiler_str>>) @@ ("Linux" :> <<"--gcc=linux-", compiler_str>>)
    @@ ("FreeBSD" :> <<"--gcc=freebsd">>) @@ ("Macos" :> <<"--gcc=osx">>)
    @@ ("Android" :> <<"--gcc=android">>) @@ ("iOS" :> <<"--gcc=ios">>)

gmake_os_to_proj ==
    ("Windows" :> "mingw") @@ ("Linux" :> "linux") @@ ("FreeBSD" :> "freebsd")
    @@ ("Macos" :> "osx") @@ ("Android" :> "android") @@ ("iOS" :> "ios")

gmake_android_arch_to_genie_suffix ==
    ("x86" :> "-x86") @@ ("x86_64" :> "-x86_64") @@ ("armv8" :> "-arm64") @@ ("armv7" :> "-arm")

gmake_arch_to_genie_suffix ==
    ("x86" :> "-x86") @@ ("x86_64" :> "-x64") @@ ("armv8" :> "-arm64") @@ ("armv7" :> "-arm")

os_to_use_arch_config_suffix ==
    ("Windows" :> FALSE) @@ ("Linux" :> FALSE) @@ ("FreeBSD" :> FALSE)
    @@ ("Macos" :> TRUE) @@ ("Android" :> TRUE) @@ ("iOS" :> TRUE)

build_type_to_make_config == ("Debug" :> "config=debug") @@ ("Release" :> "config=release")

arch_to_make_config_suffix == ("x86" :> "32") @@ ("x86_64" :> "64")

os_to_use_make_config_suffix ==
    ("Windows" :> TRUE) @@ ("Linux" :> TRUE) @@ ("FreeBSD" :> TRUE)
    @@ ("Macos" :> FALSE) @@ ("Android" :> FALSE) @@ ("iOS" :> FALSE)

Run(what, arg) == Step("run", what, arg, "ok")

\* build(): "Patch rtti"
PatchRtti(o) ==
    IF o.rtti THEN <<Run("replace_in_file", <<"toolchain.lua", "\"NoRTTI\",", "">>)>> ELSE <<>>

\* build(), is_msvc branch: the steps up to the first failed lookup
MsvcPlan(s, o) ==
    LET l == Step("lookup", "vs_ver_to_genie", <<ToString(s.compiler_version)>>,
                  IF s.compiler_version \in DOMAIN vs_ver_to_genie THEN "hit" ELSE "miss")
    IN  IF l.status = "miss" THEN <<l>>
        ELSE LET genie_VS == <<"vs", vs_ver_to_genie[s.compiler_version]>>
             IN  << l,
                    Run("genie", GenieExtra(s, o) \o genie_VS),
                    Run("msbuild", <<"bimg.sln">> \o Flatten(Projs(s, o))) >>

\* build(), make branch: the table the architecture suffix is taken from
ArchSuffixTableName(s) ==
    IF s.os = "Android" THEN "gmake_android_arch_to_genie_suffix"
    ELSE "gmake_arch_to_genie_suffix"

ArchSuffixTable(s) ==
    IF s.os = "Android" THEN gmake_android_arch_to_genie_suffix
    ELSE gmake_arch_to_genie_suffix

\* build(), make branch, "Generate projects through genie": up to the first failed lookup
GmakeGeniePlan(s, o) ==
    LET table == compiler_and_os_to_genie(s.compiler)
        l1 == Lookup("compiler_and_os_to_genie", table, s.os)
        l2 == Lookup("os_to_use_arch_config_suffix", os_to_use_arch_config_suffix, s.os)
        l3 == Lookup(ArchSuffixTableName(s), ArchSuffixTable(s), s.arch)
    IN  CASE l1.status = "miss" -> <<l1>>
          [] l1.status = "hit" /\ ~os_to_use_arch_config_suffix[s.os] ->
                <<l1, l2, Run("genie", GenieExtra(s, o) \o table[s.os] \o <<"gmake">>)>>
          [] l1.status = "hit" /\ os_to_use_arch_config_suffix[s.os] /\ l3.status = "miss" ->
                <<l1, l2, l3>>
          [] OTHER ->
                <<l1, l2, l3,
                  Run("genie", GenieExtra(s, o) \o table[s.os]
                               \o <<ArchSuffixTable(s)[s.arch], "gmake">>)>>

\* build(), make branch, "Build project folder and path from given settings"
\* (reached only when every lookup of GmakeGeniePlan hit)
ProjFolderPlan(s) ==
    <<Lookup("gmake_os_to_proj", gmake_os_to_proj, s.os),
      Lookup("os_to_use_arch_config_suffix", os_to_use_arch_config_suffix, s.os)>>
    \o (IF os_to_use_arch_config_suffix[s.os]
        THEN <<Lookup(ArchSuffixTableName(s), ArchSuffixTable(s), s.arch)>> ELSE <<>>)

proj_folder(s) ==
    <<"gmake-", gmake_os_to_proj[s.os], "-", s.compiler>>
    \o (IF os_to_use_arch_config_suffix[s.os] THEN <<ArchSuffixTable(s)[s.arch]>> ELSE <<>>)

\* build(), make branch, "Build make args from settings": up to the first failed lookup
MakeConfPlan(s) ==
    LET l1 == Lookup("build_type_to_make_config", build_type_to_make_config, s.build_type)
        l2 == Lookup("os_to_use_make_config_suffix", os_to_use_make_config_suffix, s.os)
        l3 == Lookup("arch_to_make_config_suffix", arch_to_make_config_suffix, s.arch)
    IN  CASE l1.status = "miss" -> <<l1>>
          [] l1.status = "hit" /\ ~os_to_use_make_config_suffix[s.os] -> <<l1, l2>>
          [] OTHER -> <<l1, l2, l3>>

conf(s) ==
    <<build_type_to_make_config[s.build_type]>>
    \o (IF os_to_use_make_config_suffix[s.os] THEN <<arch_to_make_config_suffix[s.arch]>>
        ELSE <<>>)

\* build(), make branch: the msys2 set-up and the MINGW argument
MingwPlan(s, m) ==
    IF s.os = "Windows" /\ m
    THEN <<Run("sh", <<"if [ ! -d /mingw64 ]; then mkdir /mingw64; fi">>),
           Run("pacman", <<"-Sy", "mingw-w64-x86_64-gcc", "--needed", "--noconfirm">>)>>
    ELSE <<>>

mingw(s, m) ==
    CASE s.os = "Windows" /\ m -> "MINGW=$MSYS_ROOT/mingw64"
      [] s.os = "Windows" /\ ~m -> "MINGW=$MINGW"
      [] OTHER -> ""

\* build(), make branch: "for proj in self._projs: autotools.make(...)"
MakePlan(s, o, m) ==
    LET projs == Projs(s, o)
    IN  [i \in 1..Len(projs) |->
            Run("make", projs[i] \o <<"-R", "-C">> \o proj_folder(s) \o <<mingw(s, m)>> \o conf(s))]

Missed(plan) == plan # <<>> /\ Last(plan).status = "miss"

\* build(), make branch: the steps up to the first failed lookup
GmakePlan(s, o, m) ==
    LET genie == GmakeGeniePlan(s, o)
    IN  IF Missed(genie) THEN genie
        ELSE IF Missed(MakeConfPlan(s)) THEN genie \o ProjFolderPlan(s) \o MakeConfPlan(s)
        ELSE genie \o ProjFolderPlan(s) \o MakeConfPlan(s) \o MingwPlan(s, m) \o MakePlan(s, o, m)

\* build(): the steps it takes when no external process fails, up to the first failed lookup
BuildPlan(s, o, m) ==
    PatchRtti(o) \o (IF is_msvc(s) THEN MsvcPlan(s, o) ELSE GmakePlan(s, o, m))

\* The steps that start an external process or touch the source tree: each may fail.
RunSteps(plan) == {i \in 1..Len(plan) : plan[i].op = "run"}

\* The execution of a plan in which step failAt fails (0: none does)
Executed(plan, failAt) ==
    IF failAt = 0 THEN plan
    ELSE SubSeq(plan, 1, failAt - 1) \o <<[plan[failAt] EXCEPT !.status = "failed"]>>

\* Faulty variant of BuildError: a failed lookup is swallowed.
BuildErrorKeyErrorSwallowed(steps) ==
    CASE steps # <<>> /\ Last(steps).status = "failed" ->
            Raised("ConanException", "build", "external", Last(steps).what)
      [] OTHER -> NoError

\* The exception a build ends with
BuildError(steps) ==
    CASE steps # <<>> /\ Last(steps).status = "miss" ->
            Raised("KeyError", "build", "lookup", Last(steps).what)
      [] steps # <<>> /\ Last(steps).status = "failed" ->
            Raised("ConanException", "build", "external", Last(steps).what)
      [] OTHER -> NoError

-----------------------------------------------------------------------------
(* Files: a name is the sequence of the parts the recipe's patterns tell apart *)

Extensions == {".a", ".lib", ".pdb", ".exe"}

\* pathlib: Path.suffix
suffix(name) == IF Last(name) \in Extensions THEN Last(name) ELSE ""

\* What the external build may leave in the build output folder.
OutputFiles(s) ==
    LET pre == IF is_msvc(s) THEN <<>> ELSE <<"lib">>
        ext == IF is_msvc(s) THEN ".lib" ELSE ".a"
        cfg == IF s.build_type = "Debug" THEN "Debug" ELSE "Release"
    IN  {pre \o <<"bimg", cfg, ext>>,
         pre \o <<"bimg", "_", "decode", cfg, ext>>,
         pre \o <<"bimg", "_", "encode", cfg, ext>>,
         pre \o <<"bx", cfg, ext>>}
        \cup {pre \o <<"other", ToString(i), cfg, ext>> : i \in 1..MaxExtraLibs}
        \cup (IF is_msvc(s) THEN {<<"bimg", cfg, ".pdb">>} ELSE {})
        \cup {IF s.os = "Windows" THEN <<"texturec", cfg, ".exe">> ELSE <<"texturec", cfg>>}

build ==
    /\ pc = "build"
    /\ LET plan == BuildPlan(settings, options, msys2)
       IN  \E failAt \in {0} \cup RunSteps(plan) :
              LET steps == Executed(plan, failAt)
              IN  /\ trace' = trace \o steps
                  /\ err' = BuildError(steps)
                  /\ IF BuildError(steps) = NoError
                     THEN /\ pc' = "package"
                          /\ \/ /\ out_dir' = TRUE
                                /\ build_bin' \in SUBSET OutputFiles(settings)
                             \/ /\ out_dir' = FALSE
                                /\ build_bin' = {}
                     ELSE /\ pc' = "error"
                          /\ UNCHANGED <<out_dir, build_bin>>
    /\ UNCHANGED <<recipeVars, gitVars, version, warned, package_lib, package_bin>>

-----------------------------------------------------------------------------
(* package() and package_info() *)

\* package(): "Set platform suffixes and prefixes"
lib_ext(s) == IF s.os = "Windows" /\ is_msvc(s) THEN <<".lib", ".pdb">> ELSE <<".a">>

package_lib_prefix(s) == IF s.os = "Windows" /\ is_msvc(s) THEN <<>> ELSE <<"lib">>

\* copy(pattern="*<ext>", src=build_bin, keep_path=False): the files copied
CopyByExt(files, ext) == {f \in files : Last(f) = ext}

\* copy(pattern="texturec*", ...)
CopyTools(files) == {f \in files : Head(f) = "texturec"}

\* Faulty variant of TooFewLibs: exactly the expected count is refused too.
TooFewLibsOffByOne(copied) == Cardinality(copied) <= expectedNumLibs

\* package(): the library-count check raises
TooFewLibs(copied) == Cardinality(copied) < expectedNumLibs

\* package(): the name a file of the lib folder has after "Rename for consistency"
RenamedLib(s, name) ==
    IF Contains(name, "bimg") /\ suffix(name) # ".pdb"
    THEN LET fExtra == IF Contains(name, "encode") THEN <<"_", "encode">>
                       ELSE IF Contains(name, "decode") THEN <<"_", "decode">>
                       ELSE <<>>
         IN  package_lib_prefix(s) \o <<"bimg">> \o fExtra
             \o (IF suffix(name) = "" THEN <<>> ELSE <<suffix(name)>>)
    ELSE name

\* package(): the name a file of the bin folder has after the texturec rename
RenamedTool(name) ==
    IF Contains(name, "texturec")
    THEN <<"texturec">> \o (IF suffix(name) = "" THEN <<>> ELSE <<suffix(name)>>)
    ELSE name

\* rm(pattern="*bx*", folder=lib)
RemoveBx(files) == {f \in files : ~Contains(f, "bx")}

\* package(): every file copied into the lib folder (libraries, then debug info)
CopiedToLib(s, files) == UNION {CopyByExt(files, lib_ext(s)[i]) : i \in 1..Len(lib_ext(s))}

\* package(): the lib folder when package() returns
PackagedLib(s, files) == RemoveBx({RenamedLib(s, f) : f \in CopiedToLib(s, files)})

\* Faulty variant of PackagedBin: the tools are packaged whatever the option says.
PackagedBinUngated(o, files) == {RenamedTool(f) : f \in CopyTools(files)}

\* package(): the bin folder when package() returns
PackagedBin(o, files) == IF o.tools THEN {RenamedTool(f) : f \in CopyTools(files)} ELSE {}

Copy(pattern, dst) == Step("copy", pattern, <<dst>>, "ok")

\* package(): its file operations up to the library-count check
PackageHead(s) ==
    <<Copy("LICENSE", "licenses"), Copy("*.h", "include"), Copy("*.inl", "include"),
      Copy(lib_ext(s)[1], "lib")>>

\* package(): its file operations after the library-count check
PackageTail(s, o) ==
    [i \in 1..(Len(lib_ext(s)) - 1) |-> Copy(lib_ext(s)[i + 1], "lib")]
    \o (IF o.tools THEN <<Copy("texturec*", "bin")>> ELSE <<>>)
    \o <<Step("rename", "*bimg*", <<"lib">>, "ok")>>
    \o (IF o.tools THEN <<Step("rename", "*texturec*", <<"bin">>, "ok")>> ELSE <<>>)
    \o <<Step("rm", "*bx*", <<"lib">>, "ok")>>

package ==
    /\ pc = "package"
    /\ IF ~out_dir
       THEN \* build_bin was never assigned: reading it at the library copy fails
            /\ trace' = trace \o SubSeq(PackageHead(settings), 1, Len(PackageHead(settings)) - 1)
            /\ err' = Raised("UnboundLocalError", "package", "python", "build_bin")
            /\ pc' = "error"
            /\ UNCHANGED <<package_lib, package_bin>>
       ELSE IF TooFewLibs(CopyByExt(build_bin, lib_ext(settings)[1]))
       THEN /\ trace' = trace \o PackageHead(settings)
            /\ package_lib' = CopyByExt(build_bin, lib_ext(settings)[1])
            /\ err' = Raised("Exception", "package", "recipe", invalidPackageExceptionText)
            /\ pc' = "error"
            /\ UNCHANGED package_bin
       ELSE /\ trace' = trace \o PackageHead(settings) \o PackageTail(settings, options)
            /\ package_lib' = PackagedLib(settings, build_bin)
            /\ package_bin' = PackagedBin(options, build_bin)
            /\ pc' = "done"
            /\ UNCHANGED err
    /\ UNCHANGED <<recipeVars, gitVars, version, warned, out_dir, build_bin>>

\* package_info(): self.cpp_info.libs
cpp_info_libs == <<"bimg_encode", "bimg_decode", "bimg">>

\* The file of the lib folder a declared library is linked from.
LibFile(s, lib) ==
    package_lib_prefix(s)
    \o (CASE lib = "bimg_encode" -> <<"bimg", "_", "encode">>
          [] lib = "bimg_decode" -> <<"bimg", "_", "decode">>
          [] OTHER -> <<lib>>)
    \o <<lib_ext(s)[1]>>

Next == validate \/ build \/ package

Spec == Init /\ [][Next]_vars

-----------------------------------------------------------------------------
(* Properties *)

BuildFinished == pc \in {"package", "done"} \/ err.method = "package"
PackageRan == pc = "done" \/ err.method = "package"
ValidateRan == pc # "validate"

Idx(op, whats) == {i \in 1..Len(trace) : trace[i].op = op /\ trace[i].what \in whats}
Genies == Idx("run", {"genie"})
NativeBuilds == Idx("run", {"make", "msbuild"})
Copies == {i \in 1..Len(trace) : trace[i].op = "copy"}
Misses == {i \in 1..Len(trace) : trace[i].op = "lookup" /\ trace[i].status = "miss"}

IsTarget(t) == t \in TargetNames

\* The targets handed to the native build tool, in the order they were handed over.
RECURSIVE TargetsBuilt(_)
TargetsBuilt(steps) ==
    IF steps = <<>> THEN <<>>
    ELSE (IF Head(steps).op = "run" /\ Head(steps).what \in {"make", "msbuild"}
          THEN SelectSeq(Head(steps).arg, IsTarget) ELSE <<>>)
         \o TargetsBuilt(Tail(steps))

\* The number of files of the build output that the library pattern matches.
NumLibsInOutput ==
    LET ext == IF settings.os = "Windows" /\ settings.compiler \in {"msvc", "Visual Studio"}
               THEN ".lib" ELSE ".a"
    IN  Cardinality({f \in build_bin : f[Len(f)] = ext})

\* C1: package() ends with an exception whenever fewer than 3 library files
\* were copied from the build output (its own Exception when the output folder
\* was found), and completes whenever 3 or more were copied.
C1_LibCountCheck ==
    PackageRan =>
        /\ NumLibsInOutput < 3 => (pc = "error" /\ err.method = "package")
        /\ (err.type = "Exception" /\ pc = "error") <=> (out_dir /\ NumLibsInOutput < 3)
        /\ (pc = "done") <=> (NumLibsInOutput >= 3)

C1_Witness ==
    /\ pc = "error" /\ err.method = "package" /\ err.type = "Exception"
    /\ NumLibsInOutput = 2 /\ Cardinality(package_lib) = 2

\* C2: with no version set, the version set_version() leaves is a function of
\* the commit count N alone: <1 + N div 10000>.<(N div 100) mod 100>.<N mod 100>.
C2_VersionFormula ==
    numCommits >= 0 =>
        /\ Len(Split(version)) = 3
        /\ VersionItems(version) =
              <<1 + (numCommits \div 10000), (numCommits \div 100) % 100, numCommits % 100>>
        /\ version = IntToStr(1 + (numCommits \div 10000)) \o <<".">>
                      \o IntToStr((numCommits \div 100) % 100) \o <<".">>
                      \o IntToStr(numCommits % 100)

C2_Witness ==
    /\ numCommits = 10000 + 1
    /\ version = <<"2", ".", "0", ".", "1">>

\* C3 as claimed: every failed table lookup ends the run with a KeyError.
C3_EveryMissRaises ==
    \A i \in Misses : pc = "error" /\ err.type = "KeyError"

\* C3 as amended: a failed lookup in build() ends build() with a KeyError
\* at that lookup; the failed _compiler_required lookup of validate() is
\* caught there, leaves a warning and raises no KeyError; and a build that
\* finished found every key it looked up.
C3_MissRaisesExceptInValidate ==
    /\ \A i \in Misses :
          IF trace[i].what = "_compiler_required"
          THEN /\ i = 1 /\ warned
               /\ ~(err.type = "KeyError" /\ err.method = "validate")
               /\ settings.compiler \notin {"gcc", "clang", "apple-clang", "msvc", "Visual Studio"}
          ELSE /\ i = Len(trace) /\ pc = "error"
               /\ err = [type |-> "KeyError", method |-> "build", origin |-> "lookup",
                          reason |-> trace[i].what]
    /\ BuildFinished =>
          /\ Misses \subseteq {1}
          /\ ~is_msvc(settings) =>
                /\ settings.os \in {"Windows", "Linux", "FreeBSD", "Macos", "Android", "iOS"}
                /\ settings.build_type \in {"Debug", "Release"}
                /\ settings.os \in {"Windows", "Linux", "FreeBSD"}
                      => settings.arch \in {"x86", "x86_64"}
          /\ is_msvc(settings) =>
                settings.compiler_version \in {15, 16, 17, 191, 192, 193, 194}

C3_Witness ==
    /\ warned /\ pc = "error" /\ err.type = "KeyError" /\ err.method = "build"
    /\ Cardinality(Misses) = 2 /\ Genies # {}

\* C4 as claimed: an error the recipe raises on its own comes from package().
C4_OnlyPackageRaises ==
    err.origin = "recipe" => err.method = "package"

\* C4 as amended: the recipe raises on its own in package() (the generic
\* Exception of the library-count check, nothing else) and in validate()
\* (ConanInvalidConfiguration, in four cases); build() raises nothing on its own.
C4_RecipeRaises ==
    /\ err.method = "build" => err.origin \in {"lookup", "external"}
    /\ err.type = "Exception" => err.method = "package"
    /\ err.method = "package" => err.type \in {"Exception", "UnboundLocalError"}
    /\ err.origin = "recipe" =>
          \/ /\ err.method = "package" /\ err.type = "Exception"
             /\ err.reason = "Less lib files found for copy than expected. Aborting."
             /\ NumLibsInOutput < 3
          \/ /\ err.method = "validate" /\ err.type = "ConanInvalidConfiguration"
             /\ \/ err.reason = "fPIC" /\ options.fPIC = "False"
                \/ /\ err.reason = "astc"
                   /\ VersionItems(version)[1] = 1
                   /\ \/ VersionItems(version)[2] < 3
                      \/ VersionItems(version)[2] = 3 /\ VersionItems(version)[3] < 30
                   /\ settings.os \in {"Linux", "FreeBSD"}
                   /\ settings.arch = "x86_64" /\ settings_build.arch = "x86"
                \/ /\ err.reason = "cpp17"
                   /\ settings.compiler = "gcc" /\ settings.compiler_version < 8
                \/ /\ err.reason = "mingw"
                   /\ settings.compiler \notin {"msvc", "Visual Studio"}
                   /\ settings.os = "Windows" /\ settings.arch # "x86_64"

C4_Witness ==
    /\ pc = "error" /\ err.method = "validate" /\ err.origin = "recipe"
    /\ err.reason = "mingw" /\ warned

\* C5: genie runs at most once, exactly once in a build that finished, and
\* before every native build; the targets are built in the order bimg,
\* bimg_decode, bimg_encode (then texturec with tools); nothing is copied
\* into the package before every target was built.
C5_BuildOrder ==
    LET expected == <<"bimg", "bimg_decode", "bimg_encode">>
                    \o (IF options.tools THEN <<"texturec">> ELSE <<>>)
    IN  /\ Cardinality(Genies) <= 1
        /\ (BuildFinished \/ NativeBuilds # {}) => Cardinality(Genies) = 1
        /\ \A g \in Genies, b \in NativeBuilds : g < b
        /\ IsPrefixOf(TargetsBuilt(trace), expected)
        /\ BuildFinished => TargetsBuilt(trace) = expected
        /\ \A b \in NativeBuilds : Len(SelectSeq(trace[b].arg, IsTarget)) >= 1
        /\ ~is_msvc(settings) =>
              \A b \in NativeBuilds : Len(SelectSeq(trace[b].arg, IsTarget)) = 1
        /\ \A c \in Copies :
              /\ \A b \in NativeBuilds : b < c /\ trace[b].status = "ok"
              /\ TargetsBuilt(trace) = expected

C5_Witness ==
    /\ pc = "done" /\ options.tools /\ ~is_msvc(settings)
    /\ Cardinality(NativeBuilds) = 4 /\ Copies # {}

\* C6 as claimed: below 1.3.30, validate() rejects a build for Linux or
\* FreeBSD x86 from a machine of another architecture; from 1.3.30 on the
\* check rejects nothing.
C6_CrossBuildToX86Rejected ==
    ValidateRan =>
        /\ ( /\ VersionItems(version)[1] = 1
             /\ \/ VersionItems(version)[2] < 3
                \/ VersionItems(version)[2] = 3 /\ VersionItems(version)[3] < 30
             /\ settings.os \in {"Linux", "FreeBSD"}
             /\ settings.arch = "x86"
             /\ settings_build.arch # "x86" )
           => (err.method = "validate" /\ err.type = "ConanInvalidConfiguration")
        /\ ~( /\ VersionItems(version)[1] = 1
              /\ \/ VersionItems(version)[2] < 3
                 \/ VersionItems(version)[2] = 3 /\ VersionItems(version)[3] < 30 )
           => err.reason # "astc"

\* C7: --with-tools, the texturec target, and the copy and rename of
\* texturec into bin happen exactly when options.tools is set; without it
\* build() builds the three libraries only and bin stays as it was.
C7_ToolsGate ==
    /\ \A g \in Genies : Contains(trace[g].arg, "--with-tools") <=> options.tools
    /\ Contains(TargetsBuilt(trace), "texturec") => options.tools
    /\ BuildFinished => (Contains(TargetsBuilt(trace), "texturec") <=> options.tools)
    /\ (BuildFinished /\ ~options.tools)
          => TargetsBuilt(trace) = <<"bimg", "bimg_decode", "bimg_encode">>
    /\ \A i \in 1..Len(trace) :
          (trace[i].arg = <<"bin">> \/ trace[i].what \in {"texturec*", "*texturec*"})
             => options.tools
    /\ pc = "done" =>
          /\ Idx("copy", {"texturec*"}) # {} <=> options.tools
          /\ Idx("rename", {"*texturec*"}) # {} <=> options.tools
          /\ options.tools =>
                package_bin = {<<"texturec">> \o SubSeq(f, 3, Len(f)) :
                                  f \in {g \in build_bin : g[1] = "texturec"}}
    /\ ~options.tools => package_bin = {}

C7_Witness ==
    /\ pc = "done" /\ options.tools
    /\ package_bin = {<<"texturec", ".exe">>}
    /\ \E g \in Genies : Contains(trace[g].arg, "--with-tools")

\* C8: the commit count cloneVersion() decodes from the version that
\* set_version() made of N is N: with L commits on master the checkout
\* goes back L - N commits when L > N, and no checkout runs when L <= N.
C8_CloneInvertsSetVersion ==
    (numCommits >= 0 /\ pc = "generate") =>
        /\ numCommitsLatest["bimg"] > numCommits
              => checkedOut["bimg"] = numCommitsLatest["bimg"] - numCommits
        /\ numCommitsLatest["bimg"] <= numCommits => checkedOut["bimg"] = -1

C8_Witness ==
    /\ pc = "generate" /\ numCommits = 10000
    /\ numCommitsLatest["bimg"] = 10000 + 1
    /\ checkedOut["bimg"] = 1

\* C9 as claimed: when package() completes, the lib folder holds the three
\* libraries package_info() declares and no file whose name matches *bx*.
C9_DeclaredLibsPackaged ==
    pc = "done" =>
        /\ \A i \in 1..Len(cpp_info_libs) : LibFile(settings, cpp_info_libs[i]) \in package_lib
        /\ \A f \in package_lib : ~Contains(f, "bx")

====
